---- MODULE Spec2Model ----
(***************************************************************************)
(* A model of nodriver/core/config.py: the Config object (argument         *)
(* rendering, guarded argument insertion, extension resolution, one-time   *)
(* preference application) and the preference helpers (prefs_to_json,      *)
(* _sync_read_prefs, _sync_write_prefs).                                    *)
(*                                                                         *)
(* Strings are sequences of one-character strings, so that str.lower(),    *)
(* the substring test `x in arg.lower()`, "%s" formatting and the split of *)
(* a dotted key are computed rather than assumed.                          *)
(***************************************************************************)
EXTENDS Integers, Sequences, FiniteSets, TLC

VARIABLES
    \* ---- Config: argument state (Config.__init__, add_argument, __call__)
    browser_args,     \* self._browser_args
    headless,         \* self.headless
    sandbox,          \* self.sandbox
    expert,           \* self.expert
    host,             \* self.host (<<>> models None / "")
    port,             \* self.port (0 models None / 0)
    user_data_dir,    \* self._user_data_dir
    renderedArgs,     \* the list last returned by __call__ (<<>>: none yet)
    argOutcome,       \* how the last add_argument call ended
    \* ---- prefs_to_json: its argument, its loop and its result
    dot_prefs,        \* the flat mapping passed in
    treeResult,       \* `result`
    treeIdx,          \* position of the for loop in dot_prefs.items()
    treeDone,         \* the function has returned
    \* ---- Config.add_extension
    extensions,       \* self._extensions
    extArg,           \* the path given to the last call
    extBefore,        \* self._extensions as the last call found it
    extOutcome,       \* how the last call ended
    tempCount,        \* temporary directories created so far (mkdtemp)
    \* ---- Config.apply_prefs on instances sharing one user_data_dir
    prefs,            \* self.prefs, per instance
    prefs_applied,    \* self._prefs_applied, per instance
    pc,               \* where each instance stands inside apply_prefs
    via,              \* the entry point of the running call
    found,            \* what os.path.exists(prefs_path) returned
    data,             \* the nested mapping about to be written
    outcome,          \* how each instance's last call ended
    result,           \* what each instance's last call returned
    file,             \* <user_data_dir>/Default/Preferences
    file0,            \* that file before any call
    calls,            \* calls made, per instance
    writes,           \* opens of the file for writing, per instance
    exitAt,           \* where the last call left apply_prefs, per instance
    readFirst,        \* the instance's last read preceded every write
    order             \* the instances in the order their writes completed

varsArgs == <<browser_args, headless, sandbox, expert, host, port,
              user_data_dir, renderedArgs, argOutcome>>

varsTree == <<dot_prefs, treeResult, treeIdx, treeDone>>

varsExt == <<extensions, extArg, extBefore, extOutcome, tempCount>>

varsPrefs == <<prefs, prefs_applied, pc, via, found, data, outcome, result,
               file, file0, calls, writes, exitAt, readFirst, order>>

vars == <<varsArgs, varsTree, varsExt, varsPrefs>>

\* ------------------------------------------------------------------ bounds
MaxInitArgs == 2
MaxArgs == 3
MaxPrefs == 2
MaxExtCalls == 3
MaxCalls == 2

\* ----------------------------------------------------------------- strings
Range(s) == {s[i] : i \in DOMAIN s}

NoDuplicates(s) == \A i, j \in DOMAIN s : i # j => s[i] # s[j]

LowerChar(c) ==
    CASE c = "A" -> "a"
      [] c = "B" -> "b"
      [] c = "C" -> "c"
      [] c = "D" -> "d"
      [] c = "E" -> "e"
      [] c = "F" -> "f"
      [] c = "G" -> "g"
      [] c = "H" -> "h"
      [] c = "I" -> "i"
      [] c = "J" -> "j"
      [] c = "K" -> "k"
      [] c = "L" -> "l"
      [] c = "M" -> "m"
      [] c = "N" -> "n"
      [] c = "O" -> "o"
      [] c = "P" -> "p"
      [] c = "Q" -> "q"
      [] c = "R" -> "r"
      [] c = "S" -> "s"
      [] c = "T" -> "t"
      [] c = "U" -> "u"
      [] c = "V" -> "v"
      [] c = "W" -> "w"
      [] c = "X" -> "x"
      [] c = "Y" -> "y"
      [] c = "Z" -> "z"
      [] OTHER -> c

Lower(s) == [i \in DOMAIN s |-> LowerChar(s[i])]

Contains(s, sub) ==
    \E i \in 1..(Len(s) - Len(sub) + 1) : SubSeq(s, i, i + Len(sub) - 1) = sub

DigitChar(d) ==
    CASE d = 0 -> "0" [] d = 1 -> "1" [] d = 2 -> "2" [] d = 3 -> "3"
      [] d = 4 -> "4" [] d = 5 -> "5" [] d = 6 -> "6" [] d = 7 -> "7"
      [] d = 8 -> "8" [] d = 9 -> "9"

RECURSIVE IntToStr(_)
IntToStr(n) ==
    IF n < 10 THEN <<DigitChar(n)>>
    ELSE IntToStr(n \div 10) \o <<DigitChar(n % 10)>>

\* ------------------------------------------------- Config: argument lists
default_browser_args ==
    << <<"-","-","r","e","m","o","t","e","-","a","l","l","o","w","-","o","r","i","g","i","n","s","=","*">>,
       <<"-","-","n","o","-","f","i","r","s","t","-","r","u","n">>,
       <<"-","-","n","o","-","s","e","r","v","i","c","e","-","a","u","t","o","r","u","n">>,
       <<"-","-","n","o","-","d","e","f","a","u","l","t","-","b","r","o","w","s","e","r","-","c","h","e","c","k">>,
       <<"-","-","h","o","m","e","p","a","g","e","=","a","b","o","u","t",":","b","l","a","n","k">>,
       <<"-","-","n","o","-","p","i","n","g","s">>,
       <<"-","-","p","a","s","s","w","o","r","d","-","s","t","o","r","e","=","b","a","s","i","c">>,
       <<"-","-","d","i","s","a","b","l","e","-","i","n","f","o","b","a","r","s">>,
       <<"-","-","d","i","s","a","b","l","e","-","b","r","e","a","k","p","a","d">>,
       <<"-","-","d","i","s","a","b","l","e","-","c","o","m","p","o","n","e","n","t","-","u","p","d","a","t","e">>,
       <<"-","-","d","i","s","a","b","l","e","-","b","a","c","k","g","r","o","u","n","d","i","n","g","-","o","c","c","l","u","d","e","d","-","w","i","n","d","o","w","s">>,
       <<"-","-","d","i","s","a","b","l","e","-","r","e","n","d","e","r","e","r","-","b","a","c","k","g","r","o","u","n","d","i","n","g">>,
       <<"-","-","d","i","s","a","b","l","e","-","b","a","c","k","g","r","o","u","n","d","-","n","e","t","w","o","r","k","i","n","g">>,
       <<"-","-","d","i","s","a","b","l","e","-","d","e","v","-","s","h","m","-","u","s","a","g","e">>,
       <<"-","-","d","i","s","a","b","l","e","-","f","e","a","t","u","r","e","s","=","I","s","o","l","a","t","e","O","r","i","g","i","n","s",",","s","i","t","e","-","p","e","r","-","p","r","o","c","e","s","s">>,
       <<"-","-","d","i","s","a","b","l","e","-","s","e","s","s","i","o","n","-","c","r","a","s","h","e","d","-","b","u","b","b","l","e">>,
       <<"-","-","d","i","s","a","b","l","e","-","s","e","a","r","c","h","-","e","n","g","i","n","e","-","c","h","o","i","c","e","-","s","c","r","e","e","n">> >>

UserDataDirPrefix == <<"-","-","u","s","e","r","-","d","a","t","a","-","d","i","r","=">>

DisableFeatures == <<"-","-","d","i","s","a","b","l","e","-","f","e","a","t","u","r","e","s","=","I","s","o","l","a","t","e","O","r","i","g","i","n","s",",","s","i","t","e","-","p","e","r","-","p","r","o","c","e","s","s">>

DisableCrashBubble == <<"-","-","d","i","s","a","b","l","e","-","s","e","s","s","i","o","n","-","c","r","a","s","h","e","d","-","b","u","b","b","l","e">>

DisableWebSecurity == <<"-","-","d","i","s","a","b","l","e","-","w","e","b","-","s","e","c","u","r","i","t","y">>

DisableSiteIsolationTrials == <<"-","-","d","i","s","a","b","l","e","-","s","i","t","e","-","i","s","o","l","a","t","i","o","n","-","t","r","i","a","l","s">>

HeadlessNew == <<"-","-","h","e","a","d","l","e","s","s","=","n","e","w">>

NoSandbox == <<"-","-","n","o","-","s","a","n","d","b","o","x">>

DebuggingHostPrefix == <<"-","-","r","e","m","o","t","e","-","d","e","b","u","g","g","i","n","g","-","h","o","s","t","=">>

DebuggingPortPrefix == <<"-","-","r","e","m","o","t","e","-","d","e","b","u","g","g","i","n","g","-","p","o","r","t","=">>

ReservedSubstrings ==
    << <<"h","e","a","d","l","e","s","s">>,
       <<"d","a","t","a","-","d","i","r">>,
       <<"d","a","t","a","_","d","i","r">>,
       <<"n","o","-","s","a","n","d","b","o","x">>,
       <<"n","o","_","s","a","n","d","b","o","x">>,
       <<"l","a","n","g">> >>

TempProfileDir == <<"/","t","m","p","/","u","c","_","x">>

CustomDataDir == <<"/","p">>

LocalHost == <<"1","2","7",".","0",".","0",".","1">>

ArgCustomFlag == <<"-","-","c","u","s","t","o","m","-","f","l","a","g","=","1">>

ArgBreakpad == <<"-","-","d","i","s","a","b","l","e","-","b","r","e","a","k","p","a","d">>

ArgUpperHeadless == <<"-","-","H","e","a","d","l","e","s","s">>

ArgLangFr == <<"-","-","l","a","n","g","=","f","r">>

ArgMute == <<"-","-","m","u","t","e","-","a","u","d","i","o">>

\* The caller-supplied arguments the model draws from: one fresh flag, one
\* equal to a default argument, two reserved ones (one in upper case).
ArgPool == {ArgCustomFlag, ArgBreakpad, ArgUpperHeadless, ArgLangFr, ArgMute}

RECURSIVE SeqsUpTo(_, _)
SeqsUpTo(S, n) ==
    IF n = 0 THEN {<<>>}
    ELSE LET shorter == SeqsUpTo(S, n - 1)
         IN  shorter \cup {Append(s, x) : s \in shorter, x \in S}

\* add_argument's test: any(x in arg.lower() for x in [...reserved...])
IsReserved(arg) ==
    \E k \in DOMAIN ReservedSubstrings :
        Contains(Lower(arg), ReservedSubstrings[k])

\* [arg for arg in self._browser_args if arg not in args]: the comprehension is
\* built against `args` as it stands before the extend.
NotAlreadyIn(extra, args) ==
    LET keep(a) == a \notin Range(args) IN SelectSeq(extra, keep)

\* Config.__call__, after apply_prefs: the argument list it returns.
Render(udd, xp, extra, hl, sb, h, p) ==
    LET a1 == default_browser_args \o <<UserDataDirPrefix \o udd>>
        a2 == a1 \o <<DisableFeatures>>
        a3 == a2 \o <<DisableCrashBubble>>
        a4 == IF xp
              THEN a3 \o <<DisableWebSecurity, DisableSiteIsolationTrials>>
              ELSE a3
        a5 == IF extra # <<>> THEN a4 \o NotAlreadyIn(extra, a4) ELSE a4
        a6 == IF hl THEN Append(a5, HeadlessNew) ELSE a5
        a7 == IF ~sb THEN Append(a6, NoSandbox) ELSE a6
        a8 == IF h # <<>> THEN Append(a7, DebuggingHostPrefix \o h) ELSE a7
        a9 == IF p # 0 THEN Append(a8, DebuggingPortPrefix \o IntToStr(p))
              ELSE a8
    IN  a9

\* --------------------------------------------------- preference mappings
\* A Python value is a scalar or a dict; a dict is the sequence of its items
\* in insertion order, each item a key (a string) and a value.
Scalar(n) == [t |-> "s", v |-> n, d |-> <<>>]
Dict(items) == [t |-> "d", v |-> 0, d |-> items]
IsDict(value) == value.t = "d"
Item(key, value) == [k |-> key, val |-> value]

Keys(dict) == {dict[i].k : i \in DOMAIN dict}
HasKey(dict, key) == key \in Keys(dict)
Get(dict, key) == dict[CHOOSE i \in DOMAIN dict : dict[i].k = key].val

\* dict[key] = value: an existing key keeps its position.
Put(dict, key, value) ==
    IF HasKey(dict, key)
    THEN [i \in DOMAIN dict |->
             IF dict[i].k = key THEN Item(key, value) ELSE dict[i]]
    ELSE Append(dict, Item(key, value))

\* dict1.update(dict2)
RECURSIVE UpdateFrom(_, _, _)
UpdateFrom(dict1, dict2, i) ==
    IF i > Len(dict2) THEN dict1
    ELSE UpdateFrom(Put(dict1, dict2[i].k, dict2[i].val), dict2, i + 1)

\* A variant of update that leaves the keys dict1 already holds untouched.
dict_update_keeps_existing(dict1, dict2) ==
    LET isNew(it) == it.k \notin Keys(dict1) IN dict1 \o SelectSeq(dict2, isNew)

dict_update(dict1, dict2) == UpdateFrom(dict1, dict2, 1)

\* prefs_to_json.deep_merge
RECURSIVE deep_merge(_, _)
RECURSIVE DeepMergeFrom(_, _, _)
DeepMergeFrom(acc, dict2, i) ==
    IF i > Len(dict2) THEN acc
    ELSE LET key == dict2[i].k
             value == dict2[i].val
             merged ==
                 IF /\ HasKey(acc, key)
                    /\ IsDict(Get(acc, key))
                    /\ IsDict(value)
                 THEN Put(acc, key,
                          Dict(deep_merge(Get(acc, key).d, value.d)))
                 ELSE Put(acc, key, value)
         IN  DeepMergeFrom(merged, dict2, i + 1)

\* A variant of deep_merge that does not descend: the value of dict2
\* replaces the value of dict1 also where both are mappings.
deep_merge_not_recursive(dict1, dict2) == UpdateFrom(dict1, dict2, 1)

deep_merge(dict1, dict2) == DeepMergeFrom(dict1, dict2, 1)

\* "." in key, and key.split(".", 1)
HasDot(key) == \E i \in DOMAIN key : key[i] = "."
FirstDot(key) == CHOOSE i \in DOMAIN key :
                     key[i] = "." /\ \A j \in 1..(i - 1) : key[j] # "."

\* prefs_to_json.undot_key: the one-item dict {key: value}
RECURSIVE undot_key(_, _)
undot_key(key, value) ==
    IF HasDot(key)
    THEN LET i == FirstDot(key)
             head == SubSeq(key, 1, i - 1)
             rest == SubSeq(key, i + 1, Len(key))
         IN  <<Item(head, Dict(undot_key(rest, value)))>>
    ELSE <<Item(key, value)>>

\* prefs_to_json: one round of its loop, and the whole loop
MergeKey(acc, item) == deep_merge(acc, undot_key(item.k, item.val))

RECURSIVE PrefsToJsonFrom(_, _, _)
PrefsToJsonFrom(acc, flat, i) ==
    IF i > Len(flat) THEN acc
    ELSE PrefsToJsonFrom(MergeKey(acc, flat[i]), flat, i + 1)

prefs_to_json(flat) == PrefsToJsonFrom(<<>>, flat, 1)

\* The dotted keys and the values the model draws preferences from.
Key_a_b_c == <<"a",".","b",".","c">>
Key_a_b_d == <<"a",".","b",".","d">>
Key_a_b == <<"a",".","b">>
Key_a == <<"a">>
Key_b == <<"b">>
Key_c == <<"c">>
Key_d == <<"d">>
Key_x == <<"x">>
Key_images == <<"p","r","o","f","i","l","e",".","d","e","f","a","u","l","t","_","c","o","n","t","e","n","t","_","s","e","t","t","i","n","g","_","v","a","l","u","e","s",".","i","m","a","g","e","s">>
Key_profile == <<"p","r","o","f","i","l","e">>
Key_dcsv == <<"d","e","f","a","u","l","t","_","c","o","n","t","e","n","t","_","s","e","t","t","i","n","g","_","v","a","l","u","e","s">>
Key_images_leaf == <<"i","m","a","g","e","s">>

\* ------------------------------------------------- Config.add_extension
\* File names, and paths as sequences of names.
N_manifest_dot == <<"m","a","n","i","f","e","s","t",".">>
N_manifest_json == <<"m","a","n","i","f","e","s","t",".","j","s","o","n">>
N_manifest_txt == <<"m","a","n","i","f","e","s","t",".","t","x","t">>
N_manifest == <<"m","a","n","i","f","e","s","t">>
N_readme == <<"r","e","a","d","m","e",".","m","d">>
N_a == <<"a">>
N_b == <<"b">>
N_ext0 == <<"e","x","t","0">>
N_ext1 == <<"e","x","t","1">>
N_ext2 == <<"e","x","t","2">>
N_crx == <<"x",".","c","r","x">>
N_badcrx == <<"b","a","d",".","c","r","x">>
N_halfcrx == <<"h","a","l","f",".","c","r","x">>
N_dev == <<"d","e","v">>
N_null == <<"n","u","l","l">>
N_nowhere == <<"n","o","w","h","e","r","e">>
N_tmp == <<"t","m","p">>
N_extension_ == <<"e","x","t","e","n","s","i","o","n","_">>

\* What the filesystem holds at a path: nothing, a readable archive, a file
\* that is no archive, an archive whose extraction fails, a directory (with
\* its entries in the order a recursive traversal meets them), or something
\* that is neither a regular file nor a directory (a device, a FIFO).
FsEntry(p, kind, entries) == [path |-> p, kind |-> kind, entries |-> entries]

ExtPool ==
    { FsEntry(<<N_nowhere>>, "missing", <<>>),
      FsEntry(<<N_dev, N_null>>, "special", <<>>),
      FsEntry(<<N_crx>>, "zip", <<>>),
      FsEntry(<<N_badcrx>>, "badzip", <<>>),
      FsEntry(<<N_halfcrx>>, "zipfail", <<>>),
      FsEntry(<<N_ext0>>, "dir", << <<N_readme>> >>),
      FsEntry(<<N_ext1>>, "dir", << <<N_manifest_json>>, <<N_readme>> >>),
      FsEntry(<<N_ext2>>, "dir",
              << <<N_a>>, <<N_a, N_manifest_json>>, <<N_b>>,
                 <<N_b, N_manifest_txt>>, <<N_manifest>> >>) }

\* path.exists(), path.is_file(), path.is_dir()
exists(e) == e.kind # "missing"
is_file(e) == e.kind \in {"zip", "badzip", "zipfail"}
is_dir(e) == e.kind = "dir"

\* A name matches the pattern "manifest.*"
MatchesManifest(name) ==
    /\ Len(name) >= Len(N_manifest_dot)
    /\ SubSeq(name, 1, Len(N_manifest_dot)) = N_manifest_dot

\* path.rglob("manifest.*"): the matching entries, in traversal order
rglob(e) ==
    LET full == [i \in DOMAIN e.entries |-> e.path \o e.entries[i]]
        hit(p) == MatchesManifest(p[Len(p)])
    IN  SelectSeq(full, hit)

parent(p) == SubSeq(p, 1, Len(p) - 1)

\* for item in path.rglob("manifest.*"): path = item.parent
RECURSIVE LoopParents(_, _, _)
LoopParents(path, items, i) ==
    IF i > Len(items) THEN path
    ELSE LoopParents(parent(items[i]), items, i + 1)

ResolveDir(e) == LoopParents(e.path, rglob(e), 1)

\* tempfile.mkdtemp(prefix="extension_", suffix=secrets.token_hex(4)): a
\* directory no earlier call was given.
mkdtemp(n) == <<N_tmp, N_extension_ \o IntToStr(n)>>

\* ------------------------------------------------------------ the parts
\* Each specification below exercises one part of the module; the state of
\* the other parts stays as construction leaves it.
ArgsAtRest ==
    /\ browser_args = <<>>
    /\ headless = FALSE
    /\ sandbox = TRUE
    /\ expert = FALSE
    /\ host = <<>>
    /\ port = 0
    /\ user_data_dir = CustomDataDir
    /\ renderedArgs = <<>>
    /\ argOutcome = "none"

TreeAtRest ==
    /\ dot_prefs = <<>>
    /\ treeResult = <<>>
    /\ treeIdx = 1
    /\ treeDone = FALSE

ExtAtRest ==
    /\ extensions = <<>>
    /\ extArg = <<>>
    /\ extBefore = <<>>
    /\ extOutcome = "none"
    /\ tempCount = 0

Instances == {1, 2}

PrefsAtRest ==
    /\ prefs = [i \in Instances |-> <<>>]
    /\ prefs_applied = [i \in Instances |-> FALSE]
    /\ pc = [i \in Instances |-> "idle"]
    /\ via = [i \in Instances |-> "none"]
    /\ found = [i \in Instances |-> FALSE]
    /\ data = [i \in Instances |-> <<>>]
    /\ outcome = [i \in Instances |-> "none"]
    /\ result = [i \in Instances |-> <<>>]
    /\ file = [kind |-> "absent", doc |-> <<>>]
    /\ file0 = [kind |-> "absent", doc |-> <<>>]
    /\ calls = [i \in Instances |-> 0]
    /\ writes = [i \in Instances |-> 0]
    /\ exitAt = [i \in Instances |-> "none"]
    /\ readFirst = [i \in Instances |-> FALSE]
    /\ order = <<>>

\* ------------------------------------------- specification: the arguments
\* Config.__init__: browser_args is stored as given; sandbox is switched off
\* for a posix root user; user_data_dir defaults to a fresh temp directory.
ConfigInit ==
    /\ browser_args \in SeqsUpTo(ArgPool, MaxInitArgs)
    /\ headless \in BOOLEAN
    /\ \E sb \in BOOLEAN, posixRoot \in BOOLEAN :
           sandbox = (IF posixRoot /\ sb THEN FALSE ELSE sb)
    /\ expert \in BOOLEAN
    /\ host \in {<<>>, LocalHost}
    /\ port \in {0, 9222}
    /\ user_data_dir \in {TempProfileDir, CustomDataDir}
    /\ renderedArgs = <<>>
    /\ argOutcome = "none"

InitArgs == ConfigInit /\ TreeAtRest /\ ExtAtRest /\ PrefsAtRest

\* Config.add_argument(arg)
AddArgument(arg) ==
    /\ Len(browser_args) < MaxArgs
    /\ IF IsReserved(arg)
       THEN /\ argOutcome' = "ValueError"
            /\ UNCHANGED browser_args
       ELSE /\ argOutcome' = "ok"
            /\ browser_args' = Append(browser_args, arg)
    /\ UNCHANGED <<headless, sandbox, expert, host, port, user_data_dir,
                   renderedArgs>>
    /\ UNCHANGED <<varsTree, varsExt, varsPrefs>>

\* Config.__call__() on a Config without preferences (apply_prefs returns at
\* once): the list is computed and returned.
Call ==
    /\ renderedArgs' = Render(user_data_dir, expert, browser_args, headless,
                              sandbox, host, port)
    /\ UNCHANGED <<browser_args, headless, sandbox, expert, host, port,
                   user_data_dir, argOutcome>>
    /\ UNCHANGED <<varsTree, varsExt, varsPrefs>>

NextArgs ==
    \/ \E arg \in ArgPool : AddArgument(arg)
    \/ Call

SpecArgs == InitArgs /\ [][NextArgs]_vars

\* --------------------------------------- specification: prefs_to_json
KeyPool == {Key_a_b_c, Key_a_b_d, Key_a_b, Key_a, Key_x, Key_images}

ValPool == {Scalar(1), Scalar(2), Dict(<<Item(Key_c, Scalar(3))>>)}

\* The flat mappings of at most n items: keys unique, every insertion order.
RECURSIVE FlatDicts(_, _, _)
FlatDicts(K, V, n) ==
    IF n = 0 THEN {<<>>}
    ELSE LET shorter == FlatDicts(K, V, n - 1)
         IN  shorter \cup
             UNION {{Append(dict, Item(k, v)) : k \in K \ Keys(dict), v \in V}
                    : dict \in shorter}

InitTree ==
    /\ dot_prefs \in FlatDicts(KeyPool, ValPool, MaxPrefs)
    /\ treeResult = <<>>
    /\ treeIdx = 1
    /\ treeDone = FALSE
    /\ ArgsAtRest /\ ExtAtRest /\ PrefsAtRest

\* for k, v in dot_prefs.items(): result = deep_merge(result, undot_key(k, v))
LoopStep ==
    /\ ~treeDone
    /\ treeIdx <= Len(dot_prefs)
    /\ treeResult' = MergeKey(treeResult, dot_prefs[treeIdx])
    /\ treeIdx' = treeIdx + 1
    /\ UNCHANGED <<dot_prefs, treeDone>>
    /\ UNCHANGED <<varsArgs, varsExt, varsPrefs>>

\* return result
ReturnTree ==
    /\ ~treeDone
    /\ treeIdx > Len(dot_prefs)
    /\ treeDone' = TRUE
    /\ UNCHANGED <<dot_prefs, treeResult, treeIdx>>
    /\ UNCHANGED <<varsArgs, varsExt, varsPrefs>>

NextTree == LoopStep \/ ReturnTree

SpecTree == InitTree /\ [][NextTree]_vars

\* --------------------------------------- specification: add_extension
InitExt ==
    /\ extensions = <<>>
    /\ extArg = <<>>
    /\ extBefore = <<>>
    /\ extOutcome = "none"
    /\ tempCount = 0
    /\ ArgsAtRest /\ TreeAtRest /\ PrefsAtRest

\* Config.add_extension(extension_path)
AddExtension(e) ==
    /\ Len(extensions) < MaxExtCalls
    /\ tempCount < MaxExtCalls
    /\ extArg' = e
    /\ extBefore' = extensions
    /\ IF ~exists(e)
       THEN \* raise FileNotFoundError
            /\ extOutcome' = "raised"
            /\ UNCHANGED <<extensions, tempCount>>
       ELSE IF is_file(e)
       THEN /\ tempCount' = tempCount + 1
            /\ IF e.kind = "zip"
               THEN /\ extensions' = Append(extensions, mkdtemp(tempCount))
                    /\ extOutcome' = "returned"
               ELSE \* zipfile.ZipFile or extractall raises
                    /\ extOutcome' = "raised"
                    /\ UNCHANGED extensions
       ELSE IF is_dir(e)
       THEN /\ extensions' = Append(extensions, ResolveDir(e))
            /\ extOutcome' = "returned"
            /\ UNCHANGED tempCount
       ELSE \* neither branch is taken: the method returns
            /\ extOutcome' = "returned"
            /\ UNCHANGED <<extensions, tempCount>>
    /\ UNCHANGED <<varsArgs, varsTree, varsPrefs>>

NextExt == \E e \in ExtPool : AddExtension(e)

SpecExt == InitExt /\ [][NextExt]_vars

\* ------------------------------------------ specification: apply_prefs
\* Two Config instances are built on the same user_data_dir, each with its
\* own preferences; their calls run in separate threads or processes, so the
\* filesystem operations of apply_prefs interleave.

\* The preference file: absent, a JSON object ("doc"), valid JSON that is no
\* object ("nonmap"), text that is no JSON ("malformed"), empty after
\* open(path, "w+") ("truncated"), or cut short or overlaid ("partial").
File(kind, doc) == [kind |-> kind, doc |-> doc]

ExamplePrefs == <<Item(Key_images, Scalar(2))>>

PrefsOf(i) ==
    IF i = 1
    THEN { <<>>,
           ExamplePrefs,
           <<Item(Key_a_b_c, Scalar(1)), Item(Key_a_b_d, Scalar(2))>>,
           <<Item(Key_a, Scalar(2))>> }
    ELSE { <<>>,
           <<Item(Key_a_b_d, Scalar(2))>>,
           <<Item(Key_x, Scalar(1)), Item(Key_a_b_c, Scalar(2))>> }

FilePool ==
    { File("absent", <<>>),
      File("doc", <<>>),
      File("doc", <<Item(Key_a, Dict(<<Item(Key_b, Scalar(5))>>))>>),
      File("doc", <<Item(Key_a_b_c, Scalar(5)), Item(Key_x, Scalar(7))>>),
      File("nonmap", <<>>),
      File("malformed", <<>>) }

\* The arguments __call__ returns for these instances (built with
\* user_data_dir and prefs only).
ConfigArgs == Render(CustomDataDir, FALSE, <<>>, FALSE, TRUE, <<>>, 0)

InitPrefs ==
    /\ prefs \in [Instances -> UNION {PrefsOf(i) : i \in Instances}]
    /\ \A i \in Instances : prefs[i] \in PrefsOf(i)
    /\ prefs_applied = [i \in Instances |-> FALSE]
    /\ pc = [i \in Instances |-> "idle"]
    /\ via = [i \in Instances |-> "none"]
    /\ found = [i \in Instances |-> FALSE]
    /\ data = [i \in Instances |-> <<>>]
    /\ outcome = [i \in Instances |-> "none"]
    /\ result = [i \in Instances |-> <<>>]
    /\ file0 \in FilePool
    /\ file = file0
    /\ calls = [i \in Instances |-> 0]
    /\ writes = [i \in Instances |-> 0]
    /\ exitAt = [i \in Instances |-> "none"]
    /\ readFirst = [i \in Instances |-> FALSE]
    /\ order = <<>>
    /\ ArgsAtRest /\ TreeAtRest /\ ExtAtRest

\* A variant of the guard that forgets the once-only flag.
ApplySkips_ignores_applied(i) == prefs[i] = <<>>

\* if not self.prefs or self._prefs_applied: return
ApplySkips(i) == prefs[i] = <<>> \/ prefs_applied[i]

\* existing_prefs, as read (the file is known to hold a JSON object)
ExistingPrefs(i) == IF found[i] THEN file.doc ELSE <<>>

\* A variant that writes the instance's own preferences only.
DataToWrite_drops_existing(i) == prefs_to_json(prefs[i])

\* existing_prefs.update(self.prefs); data = prefs_to_json(existing_prefs)
DataToWrite(i) == prefs_to_json(dict_update(ExistingPrefs(i), prefs[i]))

\* apply_prefs returns (at its guard, at its end, or after the except clause
\* logged a warning); a __call__ that ran it goes on to build its list.
ReturnsNormally(i, entry, exit) ==
    /\ pc' = [pc EXCEPT ![i] = "idle"]
    /\ exitAt' = [exitAt EXCEPT ![i] = exit]
    /\ outcome' = [outcome EXCEPT ![i] = "returned"]
    /\ result' = [result EXCEPT ![i] =
                      IF entry = "render" THEN ConfigArgs ELSE <<>>]

\* an exception leaves apply_prefs, and __call__ if that is the caller
Raises(i, exit) ==
    /\ pc' = [pc EXCEPT ![i] = "idle"]
    /\ exitAt' = [exitAt EXCEPT ![i] = exit]
    /\ outcome' = [outcome EXCEPT ![i] = "raised"]
    /\ result' = [result EXCEPT ![i] = <<>>]

Continues(i, next) ==
    /\ pc' = [pc EXCEPT ![i] = next]
    /\ UNCHANGED <<exitAt, outcome, result>>

\* config.apply_prefs() or config(): the guard of apply_prefs
StartCall(i, entry) ==
    /\ pc[i] = "idle"
    /\ calls[i] < MaxCalls
    /\ calls' = [calls EXCEPT ![i] = @ + 1]
    /\ via' = [via EXCEPT ![i] = entry]
    /\ IF ApplySkips(i)
       THEN ReturnsNormally(i, entry, "guard")
       ELSE /\ pc' = [pc EXCEPT ![i] = "makedirs"]
            /\ exitAt' = [exitAt EXCEPT ![i] = "none"]
            /\ outcome' = [outcome EXCEPT ![i] = "running"]
            /\ result' = [result EXCEPT ![i] = <<>>]
    /\ UNCHANGED <<prefs, prefs_applied, found, data, file, file0, writes,
                   readFirst, order>>
    /\ UNCHANGED <<varsArgs, varsTree, varsExt>>

\* os.makedirs(prefs_dir, exist_ok=True), before the try block
MakeDirs(i) ==
    /\ pc[i] = "makedirs"
    /\ \E ok \in BOOLEAN :
           IF ok THEN Continues(i, "exists") ELSE Raises(i, "makedirs")
    /\ UNCHANGED <<prefs, prefs_applied, via, found, data, file, file0, calls,
                   writes, readFirst, order>>
    /\ UNCHANGED <<varsArgs, varsTree, varsExt>>

\* os.path.exists(prefs_path)
Exists(i) ==
    /\ pc[i] = "exists"
    /\ found' = [found EXCEPT ![i] = (file.kind # "absent")]
    /\ Continues(i, "read")
    /\ UNCHANGED <<prefs, prefs_applied, via, data, file, file0, calls, writes,
                   readFirst, order>>
    /\ UNCHANGED <<varsArgs, varsTree, varsExt>>

\* _sync_read_prefs(prefs_path), existing_prefs.update(self.prefs) and
\* prefs_to_json(existing_prefs): json.load raises on text that is no JSON,
\* update raises on a value that is no dict; both are caught.
Read(i) ==
    /\ pc[i] = "read"
    /\ readFirst' = [readFirst EXCEPT ![i] = (\A j \in Instances : writes[j] = 0)]
    /\ IF found[i] /\ file.kind \in {"malformed", "truncated", "partial"}
       THEN ReturnsNormally(i, via[i], "read") /\ UNCHANGED data
       ELSE IF found[i] /\ file.kind = "nonmap"
       THEN ReturnsNormally(i, via[i], "update") /\ UNCHANGED data
       ELSE /\ data' = [data EXCEPT ![i] = DataToWrite(i)]
            /\ Continues(i, "open")
    /\ UNCHANGED <<prefs, prefs_applied, via, found, file, file0, calls,
                   writes, order>>
    /\ UNCHANGED <<varsArgs, varsTree, varsExt>>

\* _sync_write_prefs: open(path, "w+") empties the file
Open(i) ==
    /\ pc[i] = "open"
    /\ \E ok \in BOOLEAN :
           IF ok
           THEN /\ file' = File("truncated", <<>>)
                /\ writes' = [writes EXCEPT ![i] = @ + 1]
                /\ Continues(i, "dump")
           ELSE /\ ReturnsNormally(i, via[i], "open")
                /\ UNCHANGED <<file, writes>>
    /\ UNCHANGED <<prefs, prefs_applied, via, found, data, file0, calls,
                   readFirst, order>>
    /\ UNCHANGED <<varsArgs, varsTree, varsExt>>

\* What the file holds once json.dump and close have written the document:
\* the document, unless another writer has written since this one's open,
\* when the two outputs overlay each other from offset 0.
AfterDump(i) ==
    IF file.kind = "truncated"
    THEN {File("doc", data[i])}
    ELSE {File("doc", data[i]), File("partial", <<>>)}

\* _sync_write_prefs: json.dump and close; then self._prefs_applied = True.
\* A dump that raises leaves what it had written.
Dump(i) ==
    /\ pc[i] = "dump"
    /\ \E ok \in BOOLEAN :
           IF ok
           THEN /\ file' \in AfterDump(i)
                /\ prefs_applied' = [prefs_applied EXCEPT ![i] = TRUE]
                /\ order' = Append(order, i)
                /\ ReturnsNormally(i, via[i], "done")
           ELSE /\ file' = File("partial", <<>>)
                /\ ReturnsNormally(i, via[i], "dump")
                /\ UNCHANGED <<prefs_applied, order>>
    /\ UNCHANGED <<prefs, via, found, data, file0, calls, writes, readFirst>>
    /\ UNCHANGED <<varsArgs, varsTree, varsExt>>

NextPrefs ==
    \E i \in Instances :
        \/ \E entry \in {"apply", "render"} : StartCall(i, entry)
        \/ MakeDirs(i)
        \/ Exists(i)
        \/ Read(i)
        \/ Open(i)
        \/ Dump(i)

SpecPrefs == InitPrefs /\ [][NextPrefs]_vars

\* ================================================================ claims

\* C1: the list returned by render (Config.__call__) holds no two equal
\* strings, whatever the construction parameters and the added arguments.
C1_RenderedHasNoDuplicates ==
    renderedArgs # <<>> => NoDuplicates(renderedArgs)

\* C2: extraArguments (self._browser_args) never holds a value whose lowercase
\* form contains a reserved substring, after construction and after any
\* sequence of addArgument calls.
C2_NoReservedExtraArgument ==
    \A i \in DOMAIN browser_args : ~IsReserved(browser_args[i])

\* C3: preferencesApplied never goes back to false, and a call made on an
\* instance whose preferences are applied opens no file for writing and
\* leaves the preference file as it is.
C3_AppliedOnceThenNoWrite ==
    [][\A i \in Instances :
           prefs_applied[i] =>
               /\ prefs_applied'[i]
               /\ (calls'[i] # calls[i] \/ pc'[i] # pc[i]) =>
                      (file' = file /\ writes'[i] = writes[i])]_vars

\* An instance wrote once, and a later call on it left at the guard.
C3_Witness ==
    \E i \in Instances :
        /\ prefs_applied[i]
        /\ exitAt[i] = "guard"
        /\ calls[i] >= 2
        /\ writes[i] = 1
        /\ file.kind = "doc"

FailedSteps == {"makedirs", "read", "update", "open", "dump"}

\* C4: when a step of applyPreferences fails (directory creation, reading or
\* parsing, writing), no error reaches the caller, render still returns its
\* argument list and the Config stays Unapplied.
C4_FailureIsSwallowed ==
    \A i \in Instances :
        exitAt[i] \in FailedSteps =>
            /\ outcome[i] = "returned"
            /\ ~prefs_applied[i]
            /\ via[i] = "render" => result[i] = ConfigArgs

\* E shallow-updated with P: the keys of P overwrite equal top-level keys of
\* E, the other keys of P follow.
ShallowUpdated(E, P) ==
    LET isNew(it) == it.k \notin Keys(E)
    IN  [n \in DOMAIN E |->
            IF E[n].k \in Keys(P) THEN Item(E[n].k, Get(P, E[n].k)) ELSE E[n]]
        \o SelectSeq(P, isNew)

\* The mapping the preference file held before any call (none when absent).
Mapping0 == IF file0.kind = "doc" THEN file0.doc ELSE <<>>

ExampleTree ==
    <<Item(Key_profile,
           Dict(<<Item(Key_dcsv,
                       Dict(<<Item(Key_images_leaf, Scalar(2))>>))>>))>>

\* C5: after a successful applyPreferences with preferences P on a profile
\* whose file holds mapping E (empty when absent), the file holds exactly
\* toNestedTree(E shallow-updated with P); on a fresh directory the images
\* example gives the documented tree.
C5_FileIsTreeOfShallowUpdate ==
    \A i \in Instances :
        (exitAt[i] = "done" /\ \A j \in Instances \ {i} : calls[j] = 0) =>
            /\ file0.kind \in {"absent", "doc"}
            /\ file = File("doc",
                           prefs_to_json(ShallowUpdated(Mapping0, prefs[i])))
            /\ (file0.kind = "absent" /\ prefs[i] = ExamplePrefs) =>
                   file = File("doc", ExampleTree)

\* The preferences overwrote a top-level key the file already held.
C5_Witness ==
    \E i \in Instances :
        /\ exitAt[i] = "done"
        /\ \A j \in Instances \ {i} : calls[j] = 0
        /\ Keys(Mapping0) \cap Keys(prefs[i]) # {}
        /\ Keys(Mapping0) \ Keys(prefs[i]) # {}

\* The images example on a fresh directory.
C5_ExampleReached ==
    \E i \in Instances :
        /\ exitAt[i] = "done"
        /\ file0.kind = "absent"
        /\ prefs[i] = ExamplePrefs
        /\ file = File("doc", ExampleTree)

\* The segments of a dotted key.
RECURSIVE Segments(_)
Segments(key) ==
    IF \A i \in DOMAIN key : key[i] # "." THEN <<key>>
    ELSE LET i == CHOOSE n \in DOMAIN key :
                      key[n] = "." /\ \A m \in 1..(n - 1) : key[m] # "."
         IN  <<SubSeq(key, 1, i - 1)>> \o Segments(SubSeq(key, i + 1, Len(key)))

\* The leaves of a nested mapping: <<path, scalar>> pairs.
RECURSIVE Leaves(_)
Leaves(dict) ==
    UNION {IF IsDict(dict[i].val)
           THEN {<<(<<dict[i].k>> \o l[1]), l[2]>> : l \in Leaves(dict[i].val.d)}
           ELSE {<< <<dict[i].k>>, dict[i].val.v >>}
           : i \in DOMAIN dict}

\* Keys are unique at every level and no nested mapping is empty.
RECURSIVE WellFormed(_)
WellFormed(dict) ==
    /\ \A i, j \in DOMAIN dict : i # j => dict[i].k # dict[j].k
    /\ \A i \in DOMAIN dict :
           IsDict(dict[i].val) =>
               dict[i].val.d # <<>> /\ WellFormed(dict[i].val.d)

IsPrefix(p, q) == Len(p) <= Len(q) /\ SubSeq(q, 1, Len(p)) = p

Collide(p, q) == IsPrefix(p, q) \/ IsPrefix(q, p)

\* The leaves one flat item contributes.
ItemLeaves(item) ==
    IF IsDict(item.val)
    THEN {<<Segments(item.k) \o l[1], l[2]>> : l \in Leaves(item.val.d)}
    ELSE {<<Segments(item.k), item.val.v>>}

\* A leaf stays unless a later-inserted key puts something at, above or
\* below its path.
SurvivingLeaves(flat) ==
    UNION {{l \in ItemLeaves(flat[i]) :
               ~\E j \in (i + 1)..Len(flat) :
                   \E m \in ItemLeaves(flat[j]) : Collide(l[1], m[1])}
           : i \in DOMAIN flat}

Flat_abc_abd == <<Item(Key_a_b_c, Scalar(1)), Item(Key_a_b_d, Scalar(2))>>
Tree_abc_abd ==
    <<Item(Key_a, Dict(<<Item(Key_b, Dict(<<Item(Key_c, Scalar(1)),
                                            Item(Key_d, Scalar(2))>>))>>))>>
Flat_ab_abc == <<Item(Key_a_b, Scalar(1)), Item(Key_a_b_c, Scalar(2))>>
Tree_ab_abc ==
    <<Item(Key_a, Dict(<<Item(Key_b, Dict(<<Item(Key_c, Scalar(2))>>))>>))>>

\* C6: prefs_to_json takes the flat keys in insertion order and deep-merges
\* them: mappings at the same path are unioned, and where a scalar meets a
\* mapping the later-inserted key's value replaces the earlier one; the two
\* documented examples and the empty mapping give the documented results.
C6_DeepMergeLaterWins ==
    treeDone =>
        /\ WellFormed(treeResult)
        /\ Leaves(treeResult) = SurvivingLeaves(dot_prefs)
        /\ dot_prefs = Flat_abc_abd => treeResult = Tree_abc_abd
        /\ dot_prefs = Flat_ab_abc => treeResult = Tree_ab_abc
        /\ dot_prefs = <<>> => treeResult = <<>>

\* The scalar "a.b" was replaced by the mapping that "a.b.c" brings.
C6_Witness ==
    /\ treeDone
    /\ dot_prefs = Flat_ab_abc
    /\ treeResult = Tree_ab_abc

\* C7: every addExtension call either fails with an error and leaves the
\* extension list as it was, or succeeds and appends exactly one path at the
\* end of the list, the earlier entries unchanged and in order.
C7_FailsUntouchedOrAppendsOne ==
    /\ extOutcome = "raised" => extensions = extBefore
    /\ extOutcome = "returned" =>
           /\ Len(extensions) = Len(extBefore) + 1
           /\ SubSeq(extensions, 1, Len(extBefore)) = extBefore

\* C8: for a directory in which the recursive search finds manifest.* entries,
\* the path appended is the parent directory of the first match in traversal
\* order.
C8_ParentOfFirstMatch ==
    (/\ extOutcome = "returned"
     /\ extArg.kind = "dir"
     /\ rglob(extArg) # <<>>)
        => extensions[Len(extensions)] = parent(rglob(extArg)[1])

BothReadBeforeAnyWrite ==
    /\ \A i \in Instances : prefs_applied[i] /\ readFirst[i]
    /\ Keys(prefs[1]) \cap Keys(prefs[2]) = {}

\* C9: nothing excludes two instances on one userDataDir from both reading
\* the file before either writes; when they do and both end Applied, the file
\* holds what the last writer computed from the content both read, without
\* the first writer's preferences (or the overlay of two simultaneous
\* writes).
C9_LostUpdate ==
    BothReadBeforeAnyWrite =>
        /\ Len(order) = 2
        /\ \/ file = File("partial", <<>>)
           \/ file = File("doc",
                          prefs_to_json(ShallowUpdated(Mapping0,
                                                       prefs[order[2]])))
        /\ file.kind = "doc" =>
               Leaves(prefs_to_json(prefs[order[1]])) \cap Leaves(file.doc)
                   \subseteq Leaves(prefs_to_json(Mapping0))

\* Both instances are Applied and the file holds none of the preferences of
\* the instance that wrote first.
C9_Witness ==
    /\ BothReadBeforeAnyWrite
    /\ file.kind = "doc"
    /\ Len(order) = 2
    /\ Leaves(prefs_to_json(prefs[order[1]])) \cap Leaves(file.doc) = {}
    /\ Leaves(prefs_to_json(prefs[order[2]])) \subseteq Leaves(file.doc)

\* C10: a preference write replaces the file as a whole: the file never holds
\* an empty or partial document, also after a write that fails part-way.
C10_NeverEmptyOrPartial ==
    file.kind \notin {"truncated", "partial"}

\* C10, read for the states between writes only: with no instance between its
\* open and its dump, the file still may not hold an empty or cut-off
\* document (a dump that raised has left one).
C10_CompleteBetweenWrites ==
    (\A i \in Instances : pc[i] # "dump") =>
        file.kind \notin {"truncated", "partial"}

====
